---- MODULE Spec2Model ----
(***************************************************************************)
(* TRICAL: tri-axial sensor calibration (src/src/TRICAL.c) and the scaled  *)
(* Cholesky kernel (src/src/3dmath.h).                                     *)
(*                                                                         *)
(* Every `float` of the C source is an IEEE-754 binary32 value here: a     *)
(* record [c, s, m, e] with class c ("fin", "inf", "nan"), sign s, and for *)
(* a finite value the magnitude m * 2^e in canonical form (24-bit          *)
(* significand for a normal number, e = -149 for a subnormal or a zero).   *)
(* The arithmetic operators round to nearest, ties to even, overflow to    *)
(* infinity and underflow gradually, as a build with FLT_EVAL_METHOD 0 and *)
(* no contraction into fused multiply-adds does.                           *)
(***************************************************************************)
EXTENDS Integers, Sequences, FiniteSets, TLC

(* <float.h>, binary32 *)
FLT_MANT_DIG == 24
FLT_MIN_EXP == -125
FLT_MAX_EXP == 128

P == FLT_MANT_DIG
EMinSub == FLT_MIN_EXP - 1 - (P - 1)
EMaxM == FLT_MAX_EXP - P
TwoP == 2^P
HalfP == 2^(P - 1)

Max(a, b) == IF a >= b THEN a ELSE b
Min(a, b) == IF a <= b THEN a ELSE b

NaN == [c |-> "nan", s |-> 0, m |-> 0, e |-> 0]
Inf(s) == [c |-> "inf", s |-> s, m |-> 0, e |-> 0]
Fin(s, m, e) == [c |-> "fin", s |-> s, m |-> m, e |-> e]
Zero(s) == Fin(s, 0, EMinSub)

IsNaN(a) == a.c = "nan"
IsInf(a) == a.c = "inf"
IsFin(a) == a.c = "fin"
IsZero(a) == a.c = "fin" /\ a.m = 0
SignXor(a, b) == (a.s + b.s) % 2

(* Number of significant bits of a natural number: of one below 4, below  *)
(* 16, below 256, and of any, byte by byte.                                *)
BitLen2(M) == IF M >= 2 THEN 2 ELSE M
BitLen4(M) == IF M >= 4 THEN 2 + BitLen2(M \div 4) ELSE BitLen2(M)
BitLen8(M) == IF M >= 16 THEN 4 + BitLen4(M \div 16) ELSE BitLen4(M)
RECURSIVE BitLen(_)
BitLen(M) == IF M >= 256 THEN 8 + BitLen(M \div 256) ELSE BitLen8(M)

(* Finite value of significand m and exponent e, or infinity when e is     *)
(* beyond the largest exponent.                                            *)
FinOrInf(s, m, e) == IF e > EMaxM THEN Inf(s) ELSE Fin(s, m, e)

(* Rounding to nearest, ties to even: q the kept bits, r the dropped bits, *)
(* half the weight of the first dropped bit; a carry out of the P bits     *)
(* moves to the next exponent.                                             *)
RoundCarry(s, q, e) == IF q = TwoP THEN FinOrInf(s, HalfP, e + 1) ELSE FinOrInf(s, q, e)
RoundNearest(s, q, r, half, e) ==
    RoundCarry(s, IF r > half \/ (r = half /\ q % 2 = 1) THEN q + 1 ELSE q, e)

(* sh: the number of low bits of M to drop (none when sh <= 0), n the      *)
(* number of bits of M.                                                    *)
RoundShift(s, M, E, n, sh) ==
    IF sh <= 0 THEN FinOrInf(s, M * 2^(0 - sh), E + sh)
    ELSE IF sh > n THEN Zero(s)
    ELSE RoundNearest(s, M \div 2^sh, M % 2^sh, 2^(sh - 1), E + sh)

RoundLen(s, M, E, n) == RoundShift(s, M, E, n, Max(n - P, EMinSub - E))

(* The binary32 value nearest to M * 2^E (M a natural number whose lowest   *)
(* bit may stand for discarded lower bits, at least two places below the    *)
(* rounding position): round to nearest even, gradual underflow, overflow   *)
(* to infinity.                                                             *)
RoundInt(s, M, E) == IF M = 0 THEN Zero(s) ELSE RoundLen(s, M, E, BitLen(M))

(* A finite nonzero value with its significand shifted up by k to P bits. *)
NormShift(a, k) == [m |-> a.m * 2^k, e |-> a.e - k]
NormM(a) == NormShift(a, P - BitLen(a.m))

Jam(M, lost) == IF lost /\ M % 2 = 0 THEN M + 1 ELSE M

ShiftRightJam(M, d) ==
    IF d = 0 THEN M
    ELSE IF d >= 30 THEN (IF M # 0 THEN 1 ELSE 0)
    ELSE Jam(M \div 2^d, M % 2^d # 0)

FNeg(a) == IF IsNaN(a) THEN a ELSE [a EXCEPT !.s = 1 - a.s]
FAbs(a) == IF IsNaN(a) THEN a ELSE [a EXCEPT !.s = 0]

(* The 48-bit product of two 24-bit significands from their 12-bit limbs:  *)
(* hh, p1, ll the high, cross and low partial products.                    *)
MulRound(s, hi, lo, e) ==
    RoundInt(s, Jam(hi * 8 + lo \div 2097152, lo % 2097152 # 0), e)
MulJoin(s, h, losum, e) == MulRound(s, h + losum \div TwoP, losum % TwoP, e)
MulSum(s, hh, p1, ll, e) == MulJoin(s, hh + p1 \div 4096, ll + (p1 % 4096) * 4096, e)
MulLimbs(s, a1, a0, b1, b0, e) == MulSum(s, a1 * b1, a1 * b0 + a0 * b1, a0 * b0, e)
MulNorm(s, x, y) ==
    MulLimbs(s, x.m \div 4096, x.m % 4096, y.m \div 4096, y.m % 4096, x.e + y.e + 21)

(* a * b *)
FMul(a, b) ==
    IF IsNaN(a) \/ IsNaN(b) THEN NaN
    ELSE IF IsInf(a) \/ IsInf(b)
         THEN (IF IsZero(a) \/ IsZero(b) THEN NaN ELSE Inf(SignXor(a, b)))
    ELSE IF IsZero(a) \/ IsZero(b) THEN Zero(SignXor(a, b))
    ELSE MulNorm(SignXor(a, b), NormM(a), NormM(b))

(* Long division, `bits` more quotient bits at a time. *)
DivChunk(qr, d, bits) ==
    [q |-> qr.q * 2^bits + (qr.r * 2^bits) \div d, r |-> (qr.r * 2^bits) % d]
DivRound(s, qr, e) == RoundInt(s, Jam(qr.q, qr.r # 0), e)
DivNorm(s, x, y) ==
    DivRound(s,
             DivChunk(DivChunk(DivChunk(DivChunk(DivChunk(
                 [q |-> x.m \div y.m, r |-> x.m % y.m], y.m, 6), y.m, 6), y.m, 6), y.m, 6),
                 y.m, 3),
             x.e - y.e - 27)

(* a / b *)
FDiv(a, b) ==
    IF IsNaN(a) \/ IsNaN(b) THEN NaN
    ELSE IF IsInf(a) THEN (IF IsInf(b) THEN NaN ELSE Inf(SignXor(a, b)))
    ELSE IF IsInf(b) THEN Zero(SignXor(a, b))
    ELSE IF IsZero(b) THEN (IF IsZero(a) THEN NaN ELSE Inf(SignXor(a, b)))
    ELSE IF IsZero(a) THEN Zero(SignXor(a, b))
    ELSE DivNorm(SignXor(a, b), NormM(a), NormM(b))

(* x + y for finite nonzero x, y with x.e >= y.e: A and B the significands *)
(* aligned at x.e - 3, R their signed sum in units of x's sign.            *)
AddRound(xs, ys, R, e) ==
    IF R = 0 THEN Zero(0)
    ELSE RoundInt(IF R > 0 THEN xs ELSE ys, IF R > 0 THEN R ELSE 0 - R, e)
AddSigned(x, y, A, B) == AddRound(x.s, y.s, IF x.s = y.s THEN A + B ELSE A - B, x.e - 3)
AddAligned(x, y) == AddSigned(x, y, x.m * 8, ShiftRightJam(y.m * 8, x.e - y.e))

(* a + b *)
FAdd(a, b) ==
    IF IsNaN(a) \/ IsNaN(b) THEN NaN
    ELSE IF IsInf(a) THEN (IF IsInf(b) /\ a.s # b.s THEN NaN ELSE a)
    ELSE IF IsInf(b) THEN b
    ELSE IF IsZero(a) /\ IsZero(b) THEN (IF a.s = 1 /\ b.s = 1 THEN Zero(1) ELSE Zero(0))
    ELSE IF IsZero(a) THEN b
    ELSE IF IsZero(b) THEN a
    ELSE AddAligned(IF a.e >= b.e THEN a ELSE b, IF a.e >= b.e THEN b ELSE a)

(* a - b *)
FSub(a, b) == FAdd(a, FNeg(b))

(* Bit pair i of the 26-bit radicand head m2 (zero pairs follow the 13th), *)
(* brought down below the remainder rem.                                   *)
BringDown(m2, i, rem) == rem * 4 + (IF i < 13 THEN (m2 \div 4^(12 - i)) % 4 ELSE 0)

RECURSIVE SqrtDigits(_, _, _, _)
(* Digit-by-digit square root, 27 bit pairs in all: root the bits found so  *)
(* far, rem2 the remainder with pair i brought down; [q, r] with            *)
(* q = floor(sqrt(m2 * 2^28)).                                              *)
SqrtDigits(m2, i, root, rem2) ==
    IF i = 27 THEN [q |-> root, r |-> rem2 \div 4]
    ELSE IF rem2 >= 4 * root + 1
    THEN SqrtDigits(m2, i + 1, 2 * root + 1, BringDown(m2, i + 1, rem2 - (4 * root + 1)))
    ELSE SqrtDigits(m2, i + 1, 2 * root, BringDown(m2, i + 1, rem2))

SqrtRadicand(m2) == SqrtDigits(m2, 0, 0, BringDown(m2, 0, 0))
SqrtRound(qr, e2) == RoundInt(0, Jam(qr.q, qr.r # 0), (e2 \div 2) - 14)
SqrtParity(x, odd) ==
    SqrtRound(SqrtRadicand(IF odd THEN 2 * x.m ELSE x.m), IF odd THEN x.e - 1 ELSE x.e)
SqrtNorm(x) == SqrtParity(x, x.e % 2 # 0)

(* (float)sqrt(a) *)
FSqrt(a) ==
    IF IsNaN(a) THEN NaN
    ELSE IF IsZero(a) THEN a
    ELSE IF a.s = 1 THEN NaN
    ELSE IF IsInf(a) THEN a
    ELSE SqrtNorm(NormM(a))

(* Magnitude order of two finite values in canonical form. *)
MagLt(a, b) == a.e < b.e \/ (a.e = b.e /\ a.m < b.m)

(* a < b *)
FLt(a, b) ==
    IF IsNaN(a) \/ IsNaN(b) THEN FALSE
    ELSE IF IsZero(a) /\ IsZero(b) THEN FALSE
    ELSE IF a.s # b.s THEN a.s = 1
    ELSE IF IsInf(a) THEN (a.s = 1 /\ ~IsInf(b))
    ELSE IF IsInf(b) THEN b.s = 0
    ELSE IF a.s = 0 THEN MagLt(a, b) ELSE MagLt(b, a)

(* a == b *)
FEq(a, b) ==
    IF IsNaN(a) \/ IsNaN(b) THEN FALSE
    ELSE IF IsZero(a) /\ IsZero(b) THEN TRUE
    ELSE a = b

FLe(a, b) == FLt(a, b) \/ FEq(a, b)

(* An integer of magnitude below 2^31, and a power of two, as floats. *)
FromInt(n) == IF n >= 0 THEN RoundInt(0, n, 0) ELSE RoundInt(1, 0 - n, 0)
Pow2F(k) == RoundInt(0, 1, k)

(* b, with a evaluated first: the order in which the C code computes. *)
After(a, b) == IF a = a THEN b ELSE b

(* C arrays are functions on 0..n-1, held element by element. *)
Array(f) == f @@ <<>>

FOne == FromInt(1)
FLT_EPSILON == Pow2F(1 - FLT_MANT_DIG)

(***************************************************************************)
(* 3dmath.h                                                                *)
(***************************************************************************)

(* recip(a): 1.0f / (a) *)
recip(a) == FDiv(FOne, a)

(* fsqrt(a): (float)sqrt((a)) *)
fsqrt(a) == FSqrt(a)

(* A[idx] as the kernel reads it: when the caller passes the same buffer   *)
(* for L and A, a read of A sees what has been written to L so far.        *)
ReadA(L, A, alias, idx) == IF alias THEN L[idx] ELSE A[idx]

RECURSIVE CholSum_short(_, _, _, _, _, _)
(* The s loop stopping one term early. *)
CholSum_short(L, dim, i, j, kn, s) ==
    IF kn + dim < j * dim
    THEN CholSum_short(L, dim, i, j, kn + dim, FAdd(s, FMul(L[i + kn], L[j + kn])))
    ELSE s

RECURSIVE CholSum(_, _, _, _, _, _)
(* for (kn = 0; kn < j*dim; kn += dim) s += L[i + kn] * L[j + kn]; *)
CholSum(L, dim, i, j, kn, s) ==
    IF kn < j * dim
    THEN CholSum(L, dim, i, j, kn + dim, FAdd(s, FMul(L[i + kn], L[j + kn])))
    ELSE s

(* L[i + jn] = (i == j) ? fsqrt(A[i + in]*mul - s)                          *)
(*                      : recip(L[j + jn]) * (A[i + jn]*mul - s);           *)
CholAssign(L, A, alias, mul, i, in, j, jn, s) ==
    IF i = j
    THEN fsqrt(FSub(FMul(ReadA(L, A, alias, i + in), mul), s))
    ELSE FMul(recip(L[j + jn]), FSub(FMul(ReadA(L, A, alias, i + jn), mul), s))

(* s = 0 and the s loop, then the assignment *)
CholEntry(L, A, alias, dim, mul, i, in, j, jn) ==
    CholAssign(L, A, alias, mul, i, in, j, jn, CholSum(L, dim, i, j, 0, Zero(0)))

RECURSIVE CholRow(_, _, _, _, _, _, _, _, _)
(* for (j = 1, jn = dim; j <= i; j++, jn += dim) *)
CholRow(L, A, alias, dim, mul, i, in, j, jn) ==
    IF j <= i
    THEN After(L, CholRow([L EXCEPT ![i + jn] = CholEntry(L, A, alias, dim, mul, i, in, j, jn)],
                          A, alias, dim, mul, i, in, j + 1, jn + dim))
    ELSE L

(* L[i + 0] = (i == 0) ? fsqrt(A[i + in]*mul) : recip(L[0]) * (A[i]*mul); *)
CholFirst(L, A, alias, mul, i, in) ==
    IF i = 0
    THEN fsqrt(FMul(ReadA(L, A, alias, i + in), mul))
    ELSE FMul(recip(L[0]), FMul(ReadA(L, A, alias, i), mul))

RECURSIVE CholOuter(_, _, _, _, _, _, _)
(* for (i = 0, in = 0; i < dim; i++, in += dim) *)
CholOuter(L, A, alias, dim, mul, i, in) ==
    IF i < dim
    THEN After(L, CholOuter(CholRow([L EXCEPT ![i] = CholFirst(L, A, alias, mul, i, in)],
                                    A, alias, dim, mul, i, in, 1, dim),
                            A, alias, dim, mul, i + 1, in + dim))
    ELSE L

(* matrix_cholesky_decomp_scale_f(dim, L, A, mul): the contents of L on     *)
(* return; alias says that L and A are the same buffer.                     *)
matrix_cholesky_decomp_scale_f(dim, L, A, mul, alias) ==
    CholOuter(Array(L), A, alias, dim, mul, 0, 0)

(***************************************************************************)
(* TRICAL.c                                                                *)
(***************************************************************************)

TRICAL_STATE_DIM == 9

StateIdx == 0..(TRICAL_STATE_DIM - 1)
CovIdx == 0..(TRICAL_STATE_DIM * TRICAL_STATE_DIM - 1)

(* The float literals of TRICAL_init: 1e-6f and 1e-2f are the binary32     *)
(* values nearest to 1/1000000 and 1/100.                                  *)
F_1em6 == FDiv(FOne, FromInt(1000000))
F_1em2 == FDiv(FOne, FromInt(100))

(* memset(instance, 0, sizeof(TRICAL_instance_t)) *)
ZeroedInstance ==
    [state |-> Array([i \in StateIdx |-> Zero(0)]),
     state_covariance |-> Array([i \in CovIdx |-> Zero(0)]),
     field_norm |-> Zero(0),
     measurement_noise |-> Zero(0),
     measurement_count |-> 0]

(* The seeding loop stepping by the dimension instead of the dimension     *)
(* plus one.                                                               *)
InitDiagonal_stride9 == {i \in CovIdx : i % 9 = 0}

(* for (i = 0; i < TRICAL_STATE_DIM * TRICAL_STATE_DIM; i += 10) *)
InitDiagonal == {i \in CovIdx : i % 10 = 0}

(* The instance TRICAL_init leaves; it reads nothing of the old contents. *)
TRICAL_init_result ==
    [ZeroedInstance EXCEPT
        !.field_norm = FOne,
        !.measurement_noise = F_1em6,
        !.state_covariance =
            Array([i \in CovIdx |-> IF i \in InitDiagonal THEN F_1em2 ELSE Zero(0)])]

(* The early return taken only for a norm equal to the field norm. *)
NormWithinEpsilon_equal(inst, norm) == FEq(norm, inst.field_norm)

(* if (fabs(norm - instance->field_norm) < FLT_EPSILON) return; *)
NormWithinEpsilon(inst, norm) ==
    FLt(FAbs(FSub(norm, inst.field_norm)), FLT_EPSILON)

(* TRICAL_norm_set without the final store to field_norm. *)
TRICAL_norm_set_result_keepnorm(inst, norm) ==
    IF FLt(FAbs(FSub(norm, inst.field_norm)), FLT_EPSILON) THEN inst
    ELSE [inst EXCEPT
            !.state = Array([i \in StateIdx |->
                                FMul(inst.state[i], FDiv(norm, inst.field_norm))]),
            !.state_covariance =
                Array([i \in CovIdx |->
                          FMul(inst.state_covariance[i],
                               FDiv(FMul(norm, norm),
                                    FMul(inst.field_norm, inst.field_norm)))])]

(* The instance TRICAL_norm_set(instance, norm) leaves. *)
TRICAL_norm_set_result(inst, norm) ==
    IF NormWithinEpsilon(inst, norm) THEN inst
    ELSE LET scale == FDiv(norm, inst.field_norm)
             scale2 == FDiv(FMul(norm, norm), FMul(inst.field_norm, inst.field_norm))
         IN  [inst EXCEPT
                !.state = Array([i \in StateIdx |-> FMul(inst.state[i], scale)]),
                !.state_covariance =
                    Array([i \in CovIdx |-> FMul(inst.state_covariance[i], scale2)]),
                !.field_norm = norm]

(* TRICAL_noise_set storing to the other configuration field. *)
TRICAL_noise_set_result_norm(inst, noise) == [inst EXCEPT !.field_norm = noise]

(* The instance TRICAL_noise_set(instance, noise) leaves. *)
TRICAL_noise_set_result(inst, noise) == [inst EXCEPT !.measurement_noise = noise]

(* TRICAL_estimate_get with scale_estimate[1] read from state[3]. *)
TRICAL_estimate_get_result_swapped(inst) ==
    [bias_estimate |-> <<inst.state[0], inst.state[1], inst.state[2]>>,
     scale_estimate |-> <<inst.state[3], inst.state[3], inst.state[5],
                          inst.state[4], inst.state[6], inst.state[7],
                          inst.state[5], inst.state[7], inst.state[8]>>]

(* TRICAL_estimate_get: what it writes to bias_estimate and scale_estimate. *)
TRICAL_estimate_get_result(inst) ==
    [bias_estimate |-> <<inst.state[0], inst.state[1], inst.state[2]>>,
     scale_estimate |-> <<inst.state[3], inst.state[4], inst.state[5],
                          inst.state[4], inst.state[6], inst.state[7],
                          inst.state[5], inst.state[7], inst.state[8]>>]

(* TRICAL_estimate_get_ext: the two outputs of TRICAL_estimate_get and the  *)
(* variances read off the covariance diagonal.                              *)
TRICAL_estimate_get_ext_result(inst) ==
    LET cov == inst.state_covariance
        est == TRICAL_estimate_get_result(inst)
    IN  [bias_estimate |-> est.bias_estimate,
         scale_estimate |-> est.scale_estimate,
         bias_estimate_variance |-> <<cov[0 * 9 + 0], cov[1 * 9 + 1], cov[2 * 9 + 2]>>,
         scale_estimate_variance |->
             <<cov[3 * 9 + 3], cov[4 * 9 + 4], cov[5 * 9 + 5],
               cov[4 * 9 + 4], cov[6 * 9 + 6], cov[7 * 9 + 7],
               cov[5 * 9 + 5], cov[7 * 9 + 7], cov[8 * 9 + 8]>>]

(***************************************************************************)
(* filter.c is not among the source files: _trical_measurement_calibrate   *)
(* and _trical_filter_iterate follow sections 4.2 and 4.3 of the design    *)
(* document.  The document leaves the spread parameter and the weights to  *)
(* "the standard unscented-transform" convention; alpha = 1, beta = 0 and  *)
(* kappa = 1 are taken, so n + lambda = 10.  The stored scale entries are  *)
(* read as a correction added to the identity, the reading under which the *)
(* zero state of TRICAL_init is the identity calibration.                  *)
(***************************************************************************)

UT_DIM_PLUS_LAMBDA == FromInt(TRICAL_STATE_DIM + 1)
UT_W0 == FDiv(FOne, UT_DIM_PLUS_LAMBDA)
UT_WI == FDiv(FOne, FMul(FromInt(2), UT_DIM_PLUS_LAMBDA))
FHalf == FDiv(FOne, FromInt(2))

NSigma == 2 * TRICAL_STATE_DIM + 1
SigmaIdx == 0..(NSigma - 1)

(* (I + D) * v for v = <<v0, v1, v2>>, D the symmetric matrix of s[3..8]. *)
CalibrateCentered(s, v0, v1, v2) ==
    <<FAdd(FAdd(FMul(v0, FAdd(s[3], FOne)), FMul(v1, s[4])), FMul(v2, s[5])),
      FAdd(FAdd(FMul(v0, s[4]), FMul(v1, FAdd(s[6], FOne))), FMul(v2, s[7])),
      FAdd(FAdd(FMul(v0, s[5]), FMul(v1, s[7])), FMul(v2, FAdd(s[8], FOne)))>>

(* calibrated = (I + D) * (measurement - bias); the state is only read.    *)
trical_measurement_calibrate(s, meas) ==
    CalibrateCentered(s, FSub(meas[1], s[0]), FSub(meas[2], s[1]), FSub(meas[3], s[2]))

SquaredNorm(c) == FAdd(FAdd(FMul(c[1], c[1]), FMul(c[2], c[2])), FMul(c[3], c[3]))

(* The scalar predicted measurement of one sigma point: the squared norm of *)
(* the measurement calibrated with it.                                      *)
SigmaMeasurement(s, meas) == SquaredNorm(trical_measurement_calibrate(s, meas))

(* Sigma point j: the state, the state plus block j-1 of the Cholesky       *)
(* factor, the state minus block j-10.                                      *)
SigmaPoint(s, L, j) ==
    IF j = 0 THEN s
    ELSE IF j <= TRICAL_STATE_DIM
    THEN Array([k \in StateIdx |-> FAdd(s[k], L[k + (j - 1) * TRICAL_STATE_DIM])])
    ELSE Array([k \in StateIdx |->
                    FSub(s[k], L[k + (j - 1 - TRICAL_STATE_DIM) * TRICAL_STATE_DIM])])

SigmaWeight(j) == IF j = 0 THEN UT_W0 ELSE UT_WI

RECURSIVE WeightedSum(_, _, _)
(* acc + sum over j..NSigma-1 of SigmaWeight(j) * f[j], in index order *)
WeightedSum(f, j, acc) ==
    IF j = NSigma THEN acc
    ELSE After(acc, WeightedSum(f, j + 1, FAdd(acc, FMul(SigmaWeight(j), f[j]))))

(* Transposed index of a row-major TRICAL_STATE_DIM square matrix. *)
Transposed(i) == (i % TRICAL_STATE_DIM) * TRICAL_STATE_DIM + i \div TRICAL_STATE_DIM

(* The steps of one predict and update cycle, last to first; each is given *)
(* what the steps before it computed.                                      *)

(* The covariance is made symmetric again and stored with the state. *)
FilterStore(inst, state, T) ==
    After(T,
          [inst EXCEPT
              !.state = state,
              !.state_covariance =
                  Array([i \in CovIdx |-> FMul(FHalf, FAdd(T[i], T[Transposed(i)]))])])

(* state += gain * innovation; covariance -= gain * cross-covariance^T *)
FilterCorrect(inst, pxz, gain, innovation) ==
    After(gain,
          FilterStore(inst,
              Array([k \in StateIdx |-> FAdd(inst.state[k], FMul(gain[k], innovation))]),
              Array([i \in CovIdx |->
                  FSub(inst.state_covariance[i],
                       FMul(gain[i \div TRICAL_STATE_DIM], pxz[i % TRICAL_STATE_DIM]))])))

(* No correction when the predicted variance is not positive; otherwise    *)
(* gain = cross-covariance / variance and the innovation is the squared    *)
(* field norm minus the predicted mean.                                    *)
FilterGain(inst, zbar, pzz, pxz) ==
    After(pzz, After(pxz,
          IF FLe(pzz, Zero(0)) THEN inst
          ELSE FilterCorrect(inst, pxz,
                   Array([k \in StateIdx |-> FDiv(pxz[k], pzz)]),
                   FSub(FMul(inst.field_norm, inst.field_norm), zbar))))

(* Predicted variance (plus the squared measurement noise) and the         *)
(* cross-covariance of state and measurement, from the residuals dz.       *)
FilterCovariances(inst, X, zbar, dz) ==
    After(dz,
          FilterGain(inst, zbar,
              FAdd(WeightedSum(Array([j \in SigmaIdx |-> FMul(dz[j], dz[j])]), 0, Zero(0)),
                   FMul(inst.measurement_noise, inst.measurement_noise)),
              Array([k \in StateIdx |->
                  WeightedSum(Array([j \in SigmaIdx |->
                                  FMul(FSub(X[j][k], inst.state[k]), dz[j])]),
                              0, Zero(0))])))

FilterResiduals(inst, X, z, zbar) ==
    After(zbar,
          FilterCovariances(inst, X, zbar, Array([j \in SigmaIdx |-> FSub(z[j], zbar)])))

(* The weighted mean of the predicted measurements z. *)
FilterMean(inst, X, z) == After(z, FilterResiduals(inst, X, z, WeightedSum(z, 0, Zero(0))))

(* Each sigma point of X is pushed through the measurement model. *)
FilterPredict(inst, meas, X) ==
    After(X,
          FilterMean(inst, X, Array([j \in SigmaIdx |-> SigmaMeasurement(X[j], meas)])))

(* The sigma points around the state, from the Cholesky factor L. *)
FilterSigmaPoints(inst, meas, L) ==
    After(L,
          FilterPredict(inst, meas,
                        Array([j \in SigmaIdx |-> SigmaPoint(inst.state, L, j)])))

(* One predict and update cycle: the instance afterwards (the counter is    *)
(* left to the caller).  The factor is taken of the scaled covariance.      *)
trical_filter_iterate(inst, meas) ==
    FilterSigmaPoints(inst, meas,
        matrix_cholesky_decomp_scale_f(TRICAL_STATE_DIM, ZeroedInstance.state_covariance,
                                       inst.state_covariance, UT_DIM_PLUS_LAMBDA, FALSE))

(* TRICAL_estimate_update without the increment. *)
TRICAL_estimate_update_result_nocount(inst, meas) == trical_filter_iterate(inst, meas)

(* The instance TRICAL_estimate_update(instance, measurement) leaves. *)
TRICAL_estimate_update_result(inst, meas) ==
    LET f == trical_filter_iterate(inst, meas)
    IN  [f EXCEPT !.measurement_count = f.measurement_count + 1]

(* What the three scalar getters return. *)
TRICAL_norm_get_result(inst) == inst.field_norm
TRICAL_noise_get_result(inst) == inst.measurement_noise
TRICAL_measurement_count_get_result(inst) == inst.measurement_count

(* TRICAL_measurement_calibrate: what it writes to calibrated_measurement. *)
TRICAL_measurement_calibrate_result(inst, meas) ==
    trical_measurement_calibrate(inst.state, meas)

(***************************************************************************)
(* The caller: any sequence of calls on one instance.                      *)
(***************************************************************************)

(* Bound on the calls that write to the instance. *)
MaxCalls == 4

PredOne == Fin(0, TwoP - 1, 0 - P)
FThird == FDiv(FOne, FromInt(3))

(* Arguments of TRICAL_norm_set (all > 0): 1, the float just below 1, 2^63 *)
(* and 2^64.                                                               *)
Norms == {FOne, PredOne, Pow2F(63), Pow2F(64)}
(* Arguments of TRICAL_noise_set (all > 0). *)
Noises == {Pow2F(-10)}
(* Raw measurements. *)
Measurements == {<<FromInt(2), FOne, FThird>>, <<FNeg(FHalf), FromInt(3), FOne>>}

(* Contents of an instance that TRICAL_init has not yet written. *)
Uninitialized ==
    {ZeroedInstance,
     [state |-> Array([i \in StateIdx |-> NaN]),
      state_covariance |-> Array([i \in CovIdx |-> FromInt(i - 40)]),
      field_norm |-> FNeg(FThird),
      measurement_noise |-> Inf(0),
      measurement_count |-> 12345]}

NoOutput == [kind |-> "void"]

VARIABLES
    instance,      \* the TRICAL_instance_t
    initialized,   \* TRICAL_init has been called on it
    op,            \* the last call: its name and argument
    out,           \* what the last call returned or wrote to its output buffers
    prev,          \* the instance as it was before the last call
    nUpdates,      \* TRICAL_estimate_update calls since the last TRICAL_init
    calls,         \* calls that wrote to the instance so far
    chol           \* one call of matrix_cholesky_decomp_scale_f (SpecChol)

vars == <<instance, initialized, op, out, prev, nUpdates, calls, chol>>

CholIdle == [pc |-> "idle"]

Init ==
    /\ instance \in Uninitialized
    /\ initialized = FALSE
    /\ op = [name |-> "none", arg |-> 0]
    /\ out = NoOutput
    /\ prev = instance
    /\ nUpdates = 0
    /\ calls = 0
    /\ chol = CholIdle

Called(name, arg, result, output) ==
    /\ instance' = result
    /\ op' = [name |-> name, arg |-> arg]
    /\ out' = output
    /\ prev' = instance
    /\ UNCHANGED chol

TRICAL_init ==
    /\ calls < MaxCalls
    /\ Called("init", 0, TRICAL_init_result, NoOutput)
    /\ initialized' = TRUE
    /\ nUpdates' = 0
    /\ calls' = calls + 1

TRICAL_norm_set ==
    /\ initialized
    /\ calls < MaxCalls
    /\ \E norm \in Norms :
           Called("norm_set", norm, TRICAL_norm_set_result(instance, norm), NoOutput)
    /\ calls' = calls + 1
    /\ UNCHANGED <<initialized, nUpdates>>

TRICAL_norm_get ==
    /\ initialized
    /\ Called("norm_get", 0, instance, [kind |-> "float", ret |-> TRICAL_norm_get_result(instance)])
    /\ UNCHANGED <<initialized, nUpdates, calls>>

TRICAL_noise_set ==
    /\ initialized
    /\ calls < MaxCalls
    /\ \E noise \in Noises :
           Called("noise_set", noise, TRICAL_noise_set_result(instance, noise), NoOutput)
    /\ calls' = calls + 1
    /\ UNCHANGED <<initialized, nUpdates>>

TRICAL_noise_get ==
    /\ initialized
    /\ Called("noise_get", 0, instance, [kind |-> "float", ret |-> TRICAL_noise_get_result(instance)])
    /\ UNCHANGED <<initialized, nUpdates, calls>>

TRICAL_measurement_count_get ==
    /\ initialized
    /\ Called("measurement_count_get", 0, instance,
              [kind |-> "uint", ret |-> TRICAL_measurement_count_get_result(instance)])
    /\ UNCHANGED <<initialized, nUpdates, calls>>

TRICAL_estimate_update ==
    /\ initialized
    /\ calls < MaxCalls
    /\ \E meas \in Measurements :
           Called("estimate_update", meas, TRICAL_estimate_update_result(instance, meas), NoOutput)
    /\ nUpdates' = nUpdates + 1
    /\ calls' = calls + 1
    /\ UNCHANGED initialized

TRICAL_estimate_get ==
    /\ initialized
    /\ Called("estimate_get", 0, instance,
              [kind |-> "estimate"] @@ TRICAL_estimate_get_result(instance))
    /\ UNCHANGED <<initialized, nUpdates, calls>>

TRICAL_estimate_get_ext ==
    /\ initialized
    /\ Called("estimate_get_ext", 0, instance,
              [kind |-> "estimate_ext"] @@ TRICAL_estimate_get_ext_result(instance))
    /\ UNCHANGED <<initialized, nUpdates, calls>>

TRICAL_measurement_calibrate ==
    /\ initialized
    /\ \E meas \in Measurements :
           Called("measurement_calibrate", meas, instance,
                  [kind |-> "vector",
                   calibrated |-> TRICAL_measurement_calibrate_result(instance, meas)])
    /\ UNCHANGED <<initialized, nUpdates, calls>>

Next ==
    \/ TRICAL_init
    \/ TRICAL_norm_set
    \/ TRICAL_norm_get
    \/ TRICAL_noise_set
    \/ TRICAL_noise_get
    \/ TRICAL_measurement_count_get
    \/ TRICAL_estimate_update
    \/ TRICAL_estimate_get
    \/ TRICAL_estimate_get_ext
    \/ TRICAL_measurement_calibrate

Spec == Init /\ [][Next]_vars

(***************************************************************************)
(* Properties                                                              *)
(***************************************************************************)

Getters ==
    {"norm_get", "noise_get", "measurement_count_get", "estimate_get",
     "estimate_get_ext", "measurement_calibrate"}

AllFinite(inst) ==
    /\ \A i \in StateIdx : IsFin(inst.state[i])
    /\ \A i \in CovIdx : IsFin(inst.state_covariance[i])
    /\ IsFin(inst.field_norm)

(* Equal up to arithmetic rounding: the same value, or two finite values   *)
(* that differ by at most 2^-20 of their magnitude.                        *)
Same(a, b) ==
    \/ a = b
    \/ FEq(a, b)
    \/ /\ IsFin(a)
       /\ IsFin(b)
       /\ FLe(FAbs(FSub(a, b)), FMul(Pow2F(-20), FAbs(b)))

(* C2: TRICAL_init leaves the default state whatever the instance held:    *)
(* state all 0, field_norm 1.0, measurement_noise 1e-6 (0x358637BD),       *)
(* measurement_count 0, covariance 1e-2 (0x3C23D70A) at indices 0, 10, ...,*)
(* 80 and 0 elsewhere.                                                     *)
C2_InitDefaults ==
    op.name = "init" =>
        /\ instance.state = [i \in 0..8 |-> Fin(0, 0, -149)]
        /\ instance.state_covariance =
               [i \in 0..80 |->
                   IF i \in {0, 10, 20, 30, 40, 50, 60, 70, 80}
                   THEN Fin(0, 10737418, -30) ELSE Fin(0, 0, -149)]
        /\ instance.field_norm = Fin(0, 8388608, -23)
        /\ instance.measurement_noise = Fin(0, 8796093, -43)
        /\ instance.measurement_count = 0

(* TRICAL_init has just been called on an instance that an update and a    *)
(* setter had changed.                                                     *)
C2_Witness ==
    /\ op.name = "init"
    /\ prev.measurement_count = 1
    /\ prev.state # instance.state
    /\ prev.state_covariance # instance.state_covariance
    /\ (prev.field_norm # instance.field_norm
        \/ prev.measurement_noise # instance.measurement_noise)

C8_Frames ==
    /\ op.name \in Getters => instance = prev
    /\ op.name = "noise_set" =>
           /\ instance.measurement_noise = op.arg
           /\ instance.state = prev.state
           /\ instance.state_covariance = prev.state_covariance
           /\ instance.field_norm = prev.field_norm
           /\ instance.measurement_count = prev.measurement_count
    /\ op.name = "norm_set" =>
           /\ instance.measurement_noise = prev.measurement_noise
           /\ instance.measurement_count = prev.measurement_count
    /\ op.name = "estimate_update" =>
           /\ instance.field_norm = prev.field_norm
           /\ instance.measurement_noise = prev.measurement_noise

(* TRICAL_noise_set has changed the noise of an instance whose state and   *)
(* counter an update had changed and whose norm a setter had changed.      *)
C8_Witness ==
    /\ op.name = "noise_set"
    /\ instance.measurement_noise # prev.measurement_noise
    /\ instance.measurement_count = 1
    /\ instance.field_norm # Fin(0, 8388608, -23)

(* The index map of the six stored scale entries, row-major. *)
ScaleMap == <<3, 4, 5, 4, 6, 7, 5, 7, 8>>

(* C9: TRICAL_estimate_get returns bias = state[0..2] and the row-major    *)
(* scale matrix with entry (r,c) = state[map[r][c]], map = [[3,4,5],       *)
(* [4,6,7],[5,7,8]], which is symmetric; TRICAL_estimate_get_ext returns   *)
(* the same bias and scale, bias variance k = state_covariance[k*9+k] and  *)
(* scale variance (r,c) = state_covariance[m*9+m], m = map[r][c], which is *)
(* symmetric too.                                                          *)
C9_EstimateIndexMap ==
    /\ op.name \in {"estimate_get", "estimate_get_ext"} =>
           /\ \A k \in 0..2 : out.bias_estimate[k + 1] = instance.state[k]
           /\ \A r \in 0..2, c \in 0..2 :
                  /\ out.scale_estimate[3 * r + c + 1] = instance.state[ScaleMap[3 * r + c + 1]]
                  /\ out.scale_estimate[3 * r + c + 1] = out.scale_estimate[3 * c + r + 1]
    /\ op.name = "estimate_get_ext" =>
           /\ \A k \in 0..2 :
                  out.bias_estimate_variance[k + 1] = instance.state_covariance[k * 9 + k]
           /\ \A r \in 0..2, c \in 0..2 :
                  /\ out.scale_estimate_variance[3 * r + c + 1] =
                         instance.state_covariance[ScaleMap[3 * r + c + 1] * 9
                                                   + ScaleMap[3 * r + c + 1]]
                  /\ out.scale_estimate_variance[3 * r + c + 1] =
                         out.scale_estimate_variance[3 * c + r + 1]

(* TRICAL_estimate_get_ext has read an instance whose nine state entries   *)
(* differ from one another, and whose nine variances do.                   *)
C9_Witness ==
    /\ op.name = "estimate_get_ext"
    /\ \A i \in StateIdx, j \in StateIdx :
           i # j => /\ instance.state[i] # instance.state[j]
                    /\ instance.state_covariance[i * 9 + i]
                           # instance.state_covariance[j * 9 + j]

(* C1: the covariance of an initialized instance is symmetric, with        *)
(* finite, strictly positive diagonal entries (as a positive semi-definite *)
(* matrix on which the next Cholesky step is well-defined has).            *)
C1_CovarianceSymmetricPositive ==
    initialized =>
        /\ \A r \in 0..8, c \in 0..8 :
               FEq(instance.state_covariance[r * 9 + c], instance.state_covariance[c * 9 + r])
        /\ \A k \in 0..8 :
               /\ IsFin(instance.state_covariance[k * 9 + k])
               /\ FLt(Zero(0), instance.state_covariance[k * 9 + k])

(* C6: TRICAL_norm_set with a norm at least FLT_EPSILON away from the old  *)
(* field norm, on an instance of finite entries and with a squared ratio   *)
(* that is an ordinary number, leaves every state entry at its old value   *)
(* times norm/old, every covariance entry at its old value times           *)
(* (norm/old)^2, up to rounding, and field_norm at norm.                   *)
C6_RescalesByRatio ==
    (/\ op.name = "norm_set"
     /\ ~FLt(FAbs(FSub(op.arg, prev.field_norm)), Fin(0, 8388608, -46))
     /\ AllFinite(prev)
     /\ IsFin(FMul(FDiv(op.arg, prev.field_norm), FDiv(op.arg, prev.field_norm)))
     /\ ~IsZero(FMul(FDiv(op.arg, prev.field_norm), FDiv(op.arg, prev.field_norm))))
        => /\ \A i \in 0..8 :
                  Same(instance.state[i],
                       FMul(prev.state[i], FDiv(op.arg, prev.field_norm)))
           /\ \A i \in 0..80 :
                  Same(instance.state_covariance[i],
                       FMul(prev.state_covariance[i],
                            FMul(FDiv(op.arg, prev.field_norm),
                                 FDiv(op.arg, prev.field_norm))))
           /\ instance.field_norm = op.arg

(* C7: TRICAL_norm_set(i, n1) followed by TRICAL_norm_set(i, n0), n0 the   *)
(* field norm before the two calls, on an instance of finite entries and   *)
(* with a squared ratio that is an ordinary number, leaves the state, the  *)
(* covariance and field_norm as they were before the two calls, up to      *)
(* rounding.                                                               *)
C7_NormRoundTrip ==
    [][(/\ op.name = "norm_set"
        /\ op'.name = "norm_set"
        /\ op'.arg = prev.field_norm
        /\ AllFinite(prev)
        /\ IsFin(FMul(FDiv(op.arg, prev.field_norm), FDiv(op.arg, prev.field_norm)))
        /\ ~IsZero(FMul(FDiv(op.arg, prev.field_norm), FDiv(op.arg, prev.field_norm))))
           => /\ \A i \in 0..8 : Same(instance'.state[i], prev.state[i])
              /\ \A i \in 0..80 :
                     Same(instance'.state_covariance[i], prev.state_covariance[i])
              /\ Same(instance'.field_norm, prev.field_norm)]_vars

(***************************************************************************)
(* matrix_cholesky_decomp_scale_f on its own: one call on a symmetric      *)
(* positive-definite matrix.                                               *)
(***************************************************************************)

(* Bounds on the dimension and on the number of generated factors. *)
CholMaxDim == 4
CholMaxSeed == 3

(* Entry (r, c) of a lower-triangular integer factor G with a power of two *)
(* on the diagonal; G * G^T is symmetric positive-definite.                *)
FactorEntry(r, c, seed) ==
    IF r = c THEN 2^((r + seed) % 2)
    ELSE IF c < r THEN ((2 * r + 3 * c + seed) % 5) - 2
    ELSE 0

RECURSIVE GramSum(_, _, _, _)
(* sum over q <= p of G[r,q] * G[c,q] *)
GramSum(r, c, seed, p) ==
    IF p < 0 THEN 0
    ELSE FactorEntry(r, p, seed) * FactorEntry(c, p, seed) + GramSum(r, c, seed, p - 1)

(* A = G * G^T as a dim x dim buffer. *)
GramMatrix(dim, seed) ==
    Array([idx \in 0..(dim * dim - 1) |->
               FromInt(GramSum(idx % dim, idx \div dim, seed, dim - 1))])

(* What a buffer for L holds before the call when it is not A. *)
StaleBuffer(dim) == Array([idx \in 0..(dim * dim - 1) |-> FromInt(100 + idx)])

(* float m1[16] of TEST(MatrixMath, CholeskyLLT) *)
TestMatrix ==
    Array([idx \in 0..15 |->
               FromInt(<<18, 22, 54, 42,
                         22, 70, 86, 62,
                         54, 86, 174, 134,
                         42, 62, 134, 106>>[idx + 1])])

CholCall(dim, A, mul, alias, from) ==
    [pc |-> "call", dim |-> dim, A0 |-> A, mul |-> mul, alias |-> alias, from |-> from,
     L0 |-> IF alias THEN A ELSE StaleBuffer(dim),
     L |-> IF alias THEN A ELSE StaleBuffer(dim)]

(* The calls: on G * G^T with mul 1 and 4, where every step of the         *)
(* factorization is exact, with mul 10 as the filter scales, and on the    *)
(* matrix of the reference test; each with L a buffer of its own and with  *)
(* L the buffer of A.                                                      *)
CholInputs ==
    {CholCall(dim, GramMatrix(dim, seed), FromInt(mul), alias,
              IF mul = 10 THEN "scaled" ELSE "exact") :
         dim \in 1..CholMaxDim, seed \in 0..CholMaxSeed, mul \in {1, 4, 10},
         alias \in BOOLEAN}
    \cup {CholCall(4, TestMatrix, FOne, alias, "test") : alias \in BOOLEAN}

InitChol ==
    /\ instance = ZeroedInstance
    /\ initialized = FALSE
    /\ op = [name |-> "none", arg |-> 0]
    /\ out = NoOutput
    /\ prev = instance
    /\ nUpdates = 0
    /\ calls = 0
    /\ chol \in CholInputs

(* matrix_cholesky_decomp_scale_f(dim, L, A, mul) *)
matrix_cholesky_decomp_scale ==
    /\ chol.pc = "call"
    /\ chol' = [chol EXCEPT
                   !.pc = "done",
                   !.L = matrix_cholesky_decomp_scale_f(chol.dim, chol.L0, chol.A0,
                                                        chol.mul, chol.alias)]
    /\ UNCHANGED <<instance, initialized, op, out, prev, nUpdates, calls>>

NextChol == matrix_cholesky_decomp_scale

SpecChol == InitChol /\ [][NextChol]_vars

RECURSIVE RowProduct(_, _, _, _, _)
(* sum over q < p of L[r,q] * L[c,q], entry (i,j) of L at index i + j*dim *)
RowProduct(L, dim, r, c, p) ==
    IF p = 0 THEN Zero(0)
    ELSE FAdd(RowProduct(L, dim, r, c, p - 1),
              FMul(L[r + (p - 1) * dim], L[c + (p - 1) * dim]))

(* Within 2^-18 of the scale of entry (r,c) of mul*A. *)
NearEntry(x, y, A, dim, mul, r, c) ==
    /\ IsFin(x)
    /\ FLe(FAbs(FSub(x, y)),
           FMul(Pow2F(-18), FMul(mul, FAdd(A[r + r * dim], A[c + c * dim]))))

(* double expected[16] of the reference test as floats: n / 10^7 for       *)
(* 10^7 <= n < 16 * 10^7, correctly rounded.                               *)
TestDecimal(n) ==
    DivRound(0,
             DivChunk(DivChunk(DivChunk(DivChunk(DivChunk(
                 [q |-> n \div 10000000, r |-> n % 10000000],
                 10000000, 6), 10000000, 6), 10000000, 6), 10000000, 6), 10000000, 3),
             -27)
TestExpected ==
    [idx \in {0, 1, 2, 3, 5, 6, 7, 10, 11, 15} |->
        TestDecimal(<<42426400, 51854500, 127279200, 98994951,
                      0, 65659051, 30460384, 16245539,
                      0, 0, 16497422, 18497111,
                      0, 0, 0, 13926213>>[idx + 1])]

(* C10: for a symmetric positive-definite A and mul > 0 the call leaves in *)
(* L, entry (i,j) at index i + j*dim, a lower-triangular factor with       *)
(* positive diagonal and L * L^T = mul * A (exactly where every step is    *)
(* exact, up to rounding otherwise), each entry being the claimed          *)
(* expression in the entries before it; the entries above the diagonal     *)
(* are as they were before the call; the factor is the same when L is A's  *)
(* buffer as when it is a buffer of its own; and on the matrix of the      *)
(* reference test the factor is within 1e-5 of the expected values.        *)
C10_CholeskyFactor ==
    chol.pc = "done" =>
        /\ \A r \in 0..(chol.dim - 1) :
               /\ IsFin(chol.L[r + r * chol.dim])
               /\ FLt(Zero(0), chol.L[r + r * chol.dim])
               /\ Same(chol.L[r + r * chol.dim],
                       FSqrt(FSub(FMul(chol.mul, chol.A0[r + r * chol.dim]),
                                  RowProduct(chol.L, chol.dim, r, r, r))))
        /\ \A r \in 0..(chol.dim - 1), c \in 0..(chol.dim - 1) :
               /\ c <= r =>
                      IF chol.from = "exact"
                      THEN FEq(RowProduct(chol.L, chol.dim, r, c, c + 1),
                               FMul(chol.mul, chol.A0[r + c * chol.dim]))
                      ELSE NearEntry(RowProduct(chol.L, chol.dim, r, c, c + 1),
                                     FMul(chol.mul, chol.A0[r + c * chol.dim]),
                                     chol.A0, chol.dim, chol.mul, r, c)
               /\ c < r =>
                      Same(chol.L[r + c * chol.dim],
                           FDiv(FSub(FMul(chol.mul, chol.A0[r + c * chol.dim]),
                                     RowProduct(chol.L, chol.dim, r, c, c)),
                                chol.L[c + c * chol.dim]))
               /\ c > r => chol.L[r + c * chol.dim] = chol.L0[r + c * chol.dim]
               /\ (c <= r /\ chol.alias) =>
                      chol.L[r + c * chol.dim] =
                          matrix_cholesky_decomp_scale_f(chol.dim, StaleBuffer(chol.dim),
                              chol.A0, chol.mul, FALSE)[r + c * chol.dim]
        /\ chol.from = "test" =>
               \A idx \in DOMAIN TestExpected :
                   FLe(FAbs(FSub(TestExpected[idx], chol.L[idx])),
                       FDiv(FOne, FromInt(100000)))

(* A call with L and A the same buffer, dim >= 3 and mul # 1 has returned  *)
(* a factor with a nonzero entry below the diagonal in every column but    *)
(* the last.                                                               *)
C10_Witness ==
    /\ chol.pc = "done"
    /\ chol.alias
    /\ chol.dim >= 3
    /\ chol.mul # FOne
    /\ \A c \in 0..(chol.dim - 2) :
           \E r \in (c + 1)..(chol.dim - 1) : ~IsZero(chol.L[r + c * chol.dim])

====
